---- MODULE Spec2Model ----
(***************************************************************************)
(* WaveToy-MPI: two-rank explicit finite-difference solver of the 2D       *)
(* scalar wave equation (src/src/wavetoy_mpi_comm_basic.c).                *)
(*                                                                         *)
(* Each rank is a sequential process running main(); the ranks interact    *)
(* only through MPI_Send / MPI_Recv.  The field arrays are declared        *)
(* `int **` over `int *` storage that is allocated with                    *)
(* sizeof(double* ) per element and exchanged with datatype MPI_DOUBLE, so *)
(* the storage of a rank is modelled as flat arrays of int cells and a     *)
(* message as a copy of count*sizeof(double)/sizeof(int) consecutive       *)
(* cells (LP64 ABI: int 4 bytes, double and pointers 8 bytes).             *)
(* malloc returns indeterminate storage: the initial content of every      *)
(* array is chosen nondeterministically among a few fill patterns.         *)
(***************************************************************************)
EXTENDS Integers, Sequences, FiniteSets, TLC

(* ---------------- bounds of the model ---------------- *)
MaxNx == 4
MaxNy == 4
MaxStepExp == 1
MaxPattern == 1

(* ---------------- program and ABI constants ---------------- *)
NProcs == 2
SizeofInt == 4
SizeofDouble == 8
SizeofPtr == 8

Ranks == 0 .. (NProcs - 1)
Bufs == {"uold", "ucur", "unew"}

(* nsteps - 1 is a power of two, so that dt, dt/dx and (dt/dx)^2 are exact *)
(* in IEEE double arithmetic and the rational arithmetic below is the      *)
(* arithmetic of the program.                                              *)
NStepsSet == { 2^e + 1 : e \in 0 .. MaxStepExp }

VARIABLES nx, ny, nsteps, pc, k, dom, rowp, mem, hist, iters, nexch, xlog, msg, snap,
          mem0, iw, fresh, chan, red, sync

vars == <<nx, ny, nsteps, pc, k, dom, rowp, mem, hist, iters, nexch, xlog, msg, snap,
          mem0, iw, fresh, chan, red, sync>>

(* ---------------- helpers ---------------- *)
Abs(a) == IF a < 0 THEN -a ELSE a

(* conversion double -> int of the rational n/d (d > 0): truncation        *)
(* towards zero                                                            *)
ToInt(n, d) == IF n >= 0 THEN n \div d ELSE -((-n) \div d)

(* ---------------- domain decomposition ---------------- *)
(* a variant whose global start index lacks the + 1 *)
Decomposition_noOffset(worker) ==
  LET nxprocs == NProcs
      nyprocs == 1
      nxnom == nx \div nxprocs
      nynom == ny \div nyprocs
      gixs == worker * nxnom
      gixe == gixs + nxnom - 1
      ixs == 0
      ixe == nxnom + 1
      iys == 0
      iye == nynom + 1
      gnx == ixe - ixs + 1
      gny == iye - iys + 1
  IN [nxprocs |-> nxprocs, nyprocs |-> nyprocs, nxnom |-> nxnom, nynom |-> nynom,
      gixs |-> gixs, gixe |-> gixe, giys |-> 1, giye |-> ny,
      ixs |-> ixs, ixe |-> ixe, iys |-> iys, iye |-> iye,
      ixem |-> ixe - 1, iyem |-> iye - 1,
      gnx |-> gnx, gny |-> gny, gnxgny |-> gnx * gny]

(* lines 38-75 of main(), for MPI rank `worker` *)
Decomposition(worker) ==
  LET nxprocs == NProcs
      nyprocs == 1
      nxnom == nx \div nxprocs
      nynom == ny \div nyprocs
      gixs == (worker * nxnom) + 1
      gixe == gixs + nxnom - 1
      ixs == 0
      ixe == nxnom + 1
      iys == 0
      iye == nynom + 1
      gnx == ixe - ixs + 1
      gny == iye - iys + 1
  IN [nxprocs |-> nxprocs, nyprocs |-> nyprocs, nxnom |-> nxnom, nynom |-> nynom,
      gixs |-> gixs, gixe |-> gixe, giys |-> 1, giye |-> ny,
      ixs |-> ixs, ixe |-> ixe, iys |-> iys, iye |-> iye,
      ixem |-> ixe - 1, iyem |-> iye - 1,
      gnx |-> gnx, gny |-> gny, gnxgny |-> gnx * gny]

NoDomain == [nxprocs |-> 0, nyprocs |-> 0, nxnom |-> 0, nynom |-> 0,
             gixs |-> 0, gixe |-> 0, giys |-> 0, giye |-> 0,
             ixs |-> 0, ixe |-> 0, iys |-> 0, iye |-> 0,
             ixem |-> 0, iyem |-> 0, gnx |-> 0, gny |-> 0, gnxgny |-> 0]

(* ---------------- storage ---------------- *)
BufNo(b) == CASE b = "uold" -> 0 [] b = "ucur" -> 1 [] b = "unew" -> 2

(* content of freshly malloc'ed storage under fill pattern p *)
Garbage(p, b, idx) == IF p = 0 THEN 0 ELSE ((idx * p + BufNo(b)) % 3) + 1

(* number of int cells in a block of gnxgny*sizeof(double* ) bytes *)
AllocInts(w) == (dom[w].gnxgny * SizeofPtr) \div SizeofInt

(* uold[i] = &uold1D[i*gny] for i = 0 .. gnx (inclusive, as the loop runs) *)
RowPointers(w) == [i \in 0 .. dom[w].gnx |-> i * dom[w].gny]

(* flat cell index of u[i][j] on rank w *)
At(w, b, i, j) == rowp[w][b][i] + j

(* value of buffer b at [i][j] in the rank storage m *)
Get(m, w, b, i, j) == m[b][At(w, b, i, j)]

Interior(w) == (1 .. dom[w].nxnom) \X (1 .. ny)

(* ---------------- initial condition ---------------- *)
XNum(i) == -(1 + nx + 2 * i)
YNum(j) == -(1 + ny + 2 * j)

(* (int) exp(-x*x/0.01 - y*y/0.01): exp of a negative number lies in (0,1) *)
(* and truncates to 0; exp(0) = 1                                          *)
Pulse(i, j) == IF XNum(i) = 0 /\ YNum(j) = 0 THEN 1 ELSE 0

(* a variant whose ownership test admits one more column *)
Owned_pastEnd(w, i) == i >= dom[w].gixs /\ i <= dom[w].gixe + 1

(* if (i >= gixs && i <= gixe) *)
Owned(w, i) == i >= dom[w].gixs /\ i <= dom[w].gixe

InitializeUold(w, m) ==
  LET cells == { ij \in (1 .. nx) \X (1 .. ny) : Owned(w, ij[1]) }
      tgt(ij) == At(w, "uold", ij[1] - dom[w].gixs + 1, ij[2])
  IN [m EXCEPT !["uold"] =
        [idx \in DOMAIN m["uold"] |->
           IF \E ij \in cells : tgt(ij) = idx
           THEN LET h == CHOOSE c \in cells : tgt(c) = idx IN Pulse(h[1], h[2])
           ELSE m["uold"][idx]]]

(* the stores of the initialisation loop nest: how often each cell of uold *)
(* is stored into, and the global columns i that pass the ownership test   *)
InitWrites(w) ==
  LET cells == { ij \in (1 .. nx) \X (1 .. ny) : Owned(w, ij[1]) }
      tgt(ij) == At(w, "uold", ij[1] - dom[w].gixs + 1, ij[2])
  IN [count |-> [idx \in DOMAIN mem[w]["uold"] |->
                   Cardinality({ ij \in cells : tgt(ij) = idx })],
      from |-> [idx \in DOMAIN mem[w]["uold"] |->
                  { ij \in cells : tgt(ij) = idx }],
      cols |-> { ij[1] : ij \in cells }]

(* ---------------- Dirichlet boundary conditions ---------------- *)
(* a variant in which rank 1 runs the branch of rank 0 *)
BCCells_sameOnBothRanks(w) ==
  LET d == dom[w]
      corners == {<<0, 0>>, <<0, d.iye>>, <<d.ixe, 0>>, <<d.ixe, d.iye>>}
      edge == { <<0, j>> : j \in 1 .. d.iyem }
      left == { <<i, 0>> : i \in 1 .. d.ixem }
      right == { <<i, d.iye>> : i \in 1 .. d.ixem }
  IN corners \cup edge \cup left \cup right

(* the cells [i][j] that one pass of the boundary code sets to 0.0 *)
BCCells(w) ==
  LET d == dom[w]
      corners == {<<0, 0>>, <<0, d.iye>>, <<d.ixe, 0>>, <<d.ixe, d.iye>>}
      edge == IF w = 0 THEN { <<0, j>> : j \in 1 .. d.iyem }
                       ELSE { <<d.ixe, j>> : j \in 1 .. d.iyem }
      left == { <<i, 0>> : i \in 1 .. d.ixem }
      right == { <<i, d.iye>> : i \in 1 .. d.ixem }
  IN corners \cup edge \cup left \cup right

ZeroCells(w, b, a, cells) ==
  [idx \in DOMAIN a |-> IF \E c \in cells : At(w, b, c[1], c[2]) = idx THEN 0 ELSE a[idx]]

(* a variant in which the row-0 run copies its neighbour instead of storing 0.0 *)
ApplyBC_copyNeighbour(w, m) ==
  [m EXCEPT !["uold"] = [idx \in DOMAIN m["uold"] |->
                           IF \E i \in 1 .. dom[w].ixem : At(w, "uold", i, 0) = idx
                           THEN m["uold"][idx + dom[w].gny]
                           ELSE ZeroCells(w, "uold", m["uold"], BCCells(w))[idx]],
            !["ucur"] = ZeroCells(w, "ucur", m["ucur"], BCCells(w))]

ApplyBC(w, m) ==
  [m EXCEPT !["uold"] = ZeroCells(w, "uold", m["uold"], BCCells(w)),
            !["ucur"] = ZeroCells(w, "ucur", m["ucur"], BCCells(w))]

(* ---------------- time integration ---------------- *)
(* dtdxsq = (dt/dx)^2 = DtDxSqNum / DtDxSqDen, dt = 1/(nsteps-1), dx = 2/(nx+1) *)
DtDxSqNum == (nx + 1) * (nx + 1)
DtDxSqDen == 4 * (nsteps - 1) * (nsteps - 1)

(* u[i+1][j] - 2u[i][j] + u[i-1][j] + u[i][j+1] - 2u[i][j] + u[i][j-1] *)
Laplacian(m, w, b, i, j) ==
    Get(m, w, b, i + 1, j) - 2 * Get(m, w, b, i, j) + Get(m, w, b, i - 1, j)
  + Get(m, w, b, i, j + 1) - 2 * Get(m, w, b, i, j) + Get(m, w, b, i, j - 1)

(* ucur[i][j] = uold[i][j] - 2.0*dt*dudt + 0.5*csq*dtdxsq*(...), dudt = 0 *)
BootValue(m, w, i, j) ==
  ToInt(2 * DtDxSqDen * Get(m, w, "uold", i, j) + DtDxSqNum * Laplacian(m, w, "uold", i, j),
        2 * DtDxSqDen)

(* unew[i][j] = 2*ucur[i][j] + uold[i][j] + csq*dtdxsq*(...) *)
StencilValue(m, w, i, j) ==
  ToInt(DtDxSqDen * (2 * Get(m, w, "ucur", i, j) + Get(m, w, "uold", i, j))
          + DtDxSqNum * Laplacian(m, w, "ucur", i, j),
        DtDxSqDen)

(* store f[<<i,j>>] into b[i][j] for all <<i,j>> of cells *)
StoreCells(w, b, a, cells, f) ==
  [idx \in DOMAIN a |->
     IF \E c \in cells : At(w, b, c[1], c[2]) = idx
     THEN f[CHOOSE c \in cells : At(w, b, c[1], c[2]) = idx]
     ELSE a[idx]]

BootstrapUpdate(w, m) ==
  LET cells == (1 .. dom[w].nxnom) \X (1 .. dom[w].nynom)
  IN [m EXCEPT !["ucur"] =
        StoreCells(w, "ucur", m["ucur"], cells,
                   [c \in cells |-> BootValue(m, w, c[1], c[2])])]

ComputeNext(w, m) ==
  [m EXCEPT !["unew"] =
     StoreCells(w, "unew", m["unew"], Interior(w),
                [c \in Interior(w) |-> StencilValue(m, w, c[1], c[2])])]

(* a variant that copies ucur from unew before copying uold from ucur *)
UpdateArrays_currentFirst(w, m) ==
  LET m1 == [m EXCEPT !["ucur"] = StoreCells(w, "ucur", m["ucur"], Interior(w),
                          [c \in Interior(w) |-> Get(m, w, "unew", c[1], c[2])])]
  IN [m1 EXCEPT !["uold"] = StoreCells(w, "uold", m1["uold"], Interior(w),
                          [c \in Interior(w) |-> Get(m1, w, "ucur", c[1], c[2])])]

(* uold[i][j] = ucur[i][j]; ucur[i][j] = unew[i][j] over the interior *)
UpdateArrays(w, m) ==
  [m EXCEPT !["uold"] = StoreCells(w, "uold", m["uold"], Interior(w),
                          [c \in Interior(w) |-> Get(m, w, "ucur", c[1], c[2])]),
            !["ucur"] = StoreCells(w, "ucur", m["ucur"], Interior(w),
                          [c \in Interior(w) |-> Get(m, w, "unew", c[1], c[2])])]

(* ---------------- control flow of main() ---------------- *)
CommPcs == {"b1", "b2", "x1", "x2", "x3", "x4"}

(* a variant that evaluates the stencil before the exchanges of the step *)
Succ_stencilFirst(p) ==
  CASE p = "decomp" -> "alloc"
    [] p = "alloc" -> "initu"
    [] p = "initu" -> "b1"
    [] p = "b1" -> "b2"
    [] p = "b2" -> "boot"
    [] p = "boot" -> "loop"
    [] p = "bc" -> "stencil"
    [] p = "stencil" -> "x1"
    [] p = "x1" -> "x2"
    [] p = "x2" -> "x3"
    [] p = "x3" -> "x4"
    [] p = "x4" -> "rotate"
    [] p = "rotate" -> "loop"
    [] p = "fin" -> "done"

(* a variant whose time loop omits the exchange of uold *)
Succ_skipOldExchange(p) ==
  CASE p = "decomp" -> "alloc"
    [] p = "alloc" -> "initu"
    [] p = "initu" -> "b1"
    [] p = "b1" -> "b2"
    [] p = "b2" -> "boot"
    [] p = "boot" -> "loop"
    [] p = "bc" -> "x3"
    [] p = "x1" -> "x2"
    [] p = "x2" -> "x3"
    [] p = "x3" -> "x4"
    [] p = "x4" -> "stencil"
    [] p = "stencil" -> "rotate"
    [] p = "rotate" -> "loop"
    [] p = "fin" -> "done"

(* the statement that follows statement p in program order *)
Succ(p) ==
  CASE p = "decomp" -> "alloc"
    [] p = "alloc" -> "initu"
    [] p = "initu" -> "b1"
    [] p = "b1" -> "b2"
    [] p = "b2" -> "boot"
    [] p = "boot" -> "loop"
    [] p = "bc" -> "x1"
    [] p = "x1" -> "x2"
    [] p = "x2" -> "x3"
    [] p = "x3" -> "x4"
    [] p = "x4" -> "stencil"
    [] p = "stencil" -> "rotate"
    [] p = "rotate" -> "loop"
    [] p = "fin" -> "done"

(* the loop test k <= nsteps *)
LoopCond(kk) == kk <= nsteps

(* ---------------- the MPI calls ---------------- *)
(* a variant in which rank 1 issues its send before its receive *)
Op_bothSendFirst(w, p) ==
  LET b == IF p \in {"x3", "x4"} THEN "ucur" ELSE "uold"
      first == p \in {"b1", "x1", "x3"}
  IN IF w = 0
     THEN IF first
          THEN [kind |-> "send", buf |-> b, row |-> dom[w].ixem, col |-> 0,
                count |-> ny, peer |-> 1, tag |-> 0]
          ELSE [kind |-> "recv", buf |-> b, row |-> dom[w].ixe, col |-> 0,
                count |-> ny, peer |-> 1, tag |-> 1]
     ELSE IF first
          THEN [kind |-> "send", buf |-> b, row |-> 1, col |-> 0,
                count |-> ny, peer |-> 0, tag |-> 1]
          ELSE [kind |-> "recv", buf |-> b, row |-> 0, col |-> 0,
                count |-> ny, peer |-> 0, tag |-> 0]

(* a variant in which rank 1 receives with the tag of its own sends *)
Op_wrongTag(w, p) ==
  LET b == IF p \in {"x3", "x4"} THEN "ucur" ELSE "uold"
      first == p \in {"b1", "x1", "x3"}
  IN IF w = 0
     THEN IF first
          THEN [kind |-> "send", buf |-> b, row |-> dom[w].ixem, col |-> 0,
                count |-> ny, peer |-> 1, tag |-> 0]
          ELSE [kind |-> "recv", buf |-> b, row |-> dom[w].ixe, col |-> 0,
                count |-> ny, peer |-> 1, tag |-> 1]
     ELSE IF first
          THEN [kind |-> "recv", buf |-> b, row |-> 0, col |-> 0,
                count |-> ny, peer |-> 0, tag |-> 1]
          ELSE [kind |-> "send", buf |-> b, row |-> 1, col |-> 0,
                count |-> ny, peer |-> 0, tag |-> 1]

(* a variant in which rank 1 exchanges ucur before uold inside the loop *)
Op_currentFirstOnRank1(w, p) ==
  LET b == IF w = 0
           THEN (IF p \in {"x3", "x4"} THEN "ucur" ELSE "uold")
           ELSE (IF p \in {"x1", "x2"} THEN "ucur" ELSE "uold")
      first == p \in {"b1", "x1", "x3"}
  IN IF w = 0
     THEN IF first
          THEN [kind |-> "send", buf |-> b, row |-> dom[w].ixem, col |-> 0,
                count |-> ny, peer |-> 1, tag |-> 0]
          ELSE [kind |-> "recv", buf |-> b, row |-> dom[w].ixe, col |-> 0,
                count |-> ny, peer |-> 1, tag |-> 1]
     ELSE IF first
          THEN [kind |-> "recv", buf |-> b, row |-> 0, col |-> 0,
                count |-> ny, peer |-> 0, tag |-> 0]
          ELSE [kind |-> "send", buf |-> b, row |-> 1, col |-> 0,
                count |-> ny, peer |-> 0, tag |-> 1]

(* the call at statement p of rank w: MPI_Send/MPI_Recv(&buf[row][col],    *)
(* count, MPI_DOUBLE, peer, tag, MPI_COMM_WORLD)                           *)
Op(w, p) ==
  LET b == IF p \in {"x3", "x4"} THEN "ucur" ELSE "uold"
      first == p \in {"b1", "x1", "x3"}
  IN IF w = 0
     THEN IF first
          THEN [kind |-> "send", buf |-> b, row |-> dom[w].ixem, col |-> 0,
                count |-> ny, peer |-> 1, tag |-> 0]
          ELSE [kind |-> "recv", buf |-> b, row |-> dom[w].ixe, col |-> 0,
                count |-> ny, peer |-> 1, tag |-> 1]
     ELSE IF first
          THEN [kind |-> "recv", buf |-> b, row |-> 0, col |-> 0,
                count |-> ny, peer |-> 0, tag |-> 0]
          ELSE [kind |-> "send", buf |-> b, row |-> 1, col |-> 0,
                count |-> ny, peer |-> 0, tag |-> 1]

(* number of int cells covered by count elements of MPI_DOUBLE *)
MsgInts(count) == (count * SizeofDouble) \div SizeofInt

(* a send of rank s and a receive of rank r match *)
Matches(s, r) ==
  /\ s # r
  /\ pc[s] \in CommPcs /\ pc[r] \in CommPcs
  /\ Op(s, pc[s]).kind = "send" /\ Op(r, pc[r]).kind = "recv"
  /\ Op(s, pc[s]).peer = r /\ Op(r, pc[r]).peer = s
  /\ Op(s, pc[s]).tag = Op(r, pc[r]).tag
  /\ Op(s, pc[s]).count <= Op(r, pc[r]).count

(* the receiver's array after the message bytes are stored *)
Deliver(s, r) ==
  LET so == Op(s, pc[s])
      ro == Op(r, pc[r])
      sbase == At(s, so.buf, so.row, so.col)
      rbase == At(r, ro.buf, ro.row, ro.col)
      n == MsgInts(so.count)
  IN [idx \in DOMAIN mem[r][ro.buf] |->
        IF idx >= rbase /\ idx < rbase + n
        THEN mem[s][so.buf][sbase + (idx - rbase)]
        ELSE mem[r][ro.buf][idx]]

(* the flat cells that a receive of n int cells at statement p of rank r stores into *)
StoredCells(r, p, n) ==
  { At(r, Op(r, p).buf, Op(r, p).row, Op(r, p).col) + t : t \in 0 .. n - 1 }

(* the last statement of a halo exchange of one buffer *)
EndsExchange(p) == p \in {"b2", "x2", "x4"}

(* ---------------- the run under synchronous sends ---------------- *)
(* the memories of both ranks at the head of the loop, computed from the   *)
(* memory that allocation returned when every send meets its receive       *)

(* memories M after the send at statement ps of rank s has met the receive *)
(* at statement pr of rank r                                               *)
SyncMove(M, s, ps, r, pr) ==
  LET so == Op(s, ps)
      ro == Op(r, pr)
      sbase == At(s, so.buf, so.row, so.col)
      rbase == At(r, ro.buf, ro.row, ro.col)
      n == MsgInts(so.count)
  IN [M EXCEPT ![r][ro.buf] =
        [idx \in DOMAIN M[r][ro.buf] |->
           IF idx >= rbase /\ idx < rbase + n
           THEN M[s][so.buf][sbase + (idx - rbase)]
           ELSE M[r][ro.buf][idx]]]

(* rank 0 sends and rank 1 receives at p1, then rank 1 sends and rank 0    *)
(* receives at p2                                                          *)
SyncExchange(M, p1, p2) == SyncMove(SyncMove(M, 0, p1, 1, p1), 1, p2, 0, p2)

SyncBoot ==
  LET A == [w \in Ranks |-> InitializeUold(w, mem0[w])]
      B == SyncExchange(A, "b1", "b2")
  IN [w \in Ranks |-> BootstrapUpdate(w, B[w])]

SyncStep(M) ==
  LET A == [w \in Ranks |-> ApplyBC(w, M[w])]
      B == SyncExchange(A, "x1", "x2")
      C == SyncExchange(B, "x3", "x4")
  IN [w \in Ranks |-> UpdateArrays(w, ComputeNext(w, C[w]))]

(* ---------------- initial state ---------------- *)
NoExchange == [stage |-> "none", buf |-> "none", pre |-> <<>>, post |-> <<>>]
NoMessage == [from |-> -1, to |-> -1, tag |-> -1, sbuf |-> "none", rbuf |-> "none",
              sbase |-> 0, rbase |-> 0, ints |-> 0, count |-> 0,
              sphase |-> -2, rphase |-> -2]
NoWrites == [count |-> <<>>, from |-> <<>>, cols |-> {}]
NoneFresh == [bc |-> [b \in Bufs |-> {}], ex |-> [b \in Bufs |-> {}]]
ReduceOff == [job |-> "off"]
NoSync == [n |-> -1, prev |-> <<>>, cur |-> <<>>]

(* the phase a statement belongs to: -1 for the bootstrap, else the step index k *)
Phase(w) == IF pc[w] \in {"b1", "b2", "boot"} THEN -1 ELSE k[w]

Init ==
  /\ nx \in 2 .. MaxNx
  /\ ny \in 1 .. MaxNy
  /\ nsteps \in NStepsSet
  /\ pc = [w \in Ranks |-> "decomp"]
  /\ k = [w \in Ranks |-> 0]
  /\ dom = [w \in Ranks |-> NoDomain]
  /\ rowp = [w \in Ranks |-> [b \in Bufs |-> <<>>]]
  /\ mem = [w \in Ranks |-> [b \in Bufs |-> <<>>]]
  /\ hist = [w \in Ranks |-> <<>>]
  /\ iters = [w \in Ranks |-> 0]
  /\ nexch = [w \in Ranks |-> 0]
  /\ xlog = NoExchange
  /\ msg = NoMessage
  /\ snap = [w \in Ranks |-> [b \in Bufs |-> <<>>]]
  /\ mem0 = [w \in Ranks |-> [b \in Bufs |-> <<>>]]
  /\ iw = [w \in Ranks |-> NoWrites]
  /\ fresh = [w \in Ranks |-> NoneFresh]
  /\ chan = <<>>
  /\ sync = NoSync
  /\ red = ReduceOff

(* ---------------- actions ---------------- *)
(* lines 38-75: domain decomposition and array sizes *)
Decompose(w) ==
  /\ pc[w] = "decomp"
  /\ dom' = [dom EXCEPT ![w] = Decomposition(w)]
  /\ pc' = [pc EXCEPT ![w] = Succ("decomp")]
  /\ UNCHANGED <<sync, mem0, iw, fresh, chan, red, nx, ny, nsteps, k, rowp, mem, hist, iters, nexch, xlog, msg, snap>>

(* lines 77-90: malloc of the three arrays and of the row-pointer tables *)
Allocate(w) ==
  /\ pc[w] = "alloc"
  /\ \E p \in 0 .. MaxPattern :
       mem' = [mem EXCEPT ![w] =
                 [b \in Bufs |-> [idx \in 0 .. (AllocInts(w) - 1) |-> Garbage(p, b, idx)]]]
  /\ mem0' = [mem0 EXCEPT ![w] = mem'[w]]
  /\ rowp' = [rowp EXCEPT ![w] = [b \in Bufs |-> RowPointers(w)]]
  /\ pc' = [pc EXCEPT ![w] = Succ("alloc")]
  /\ UNCHANGED <<sync, iw, fresh, chan, red, nx, ny, nsteps, k, dom, hist, iters, nexch, xlog, msg, snap>>

(* lines 92-106: initial condition *)
InitializeStep(w) ==
  /\ pc[w] = "initu"
  /\ mem' = [mem EXCEPT ![w] = InitializeUold(w, mem[w])]
  /\ iw' = [iw EXCEPT ![w] = InitWrites(w)]
  /\ hist' = [hist EXCEPT ![w] = <<"init">>]
  /\ pc' = [pc EXCEPT ![w] = Succ("initu")]
  /\ UNCHANGED <<mem0, fresh, chan, red, nx, ny, nsteps, k, dom, rowp, iters, nexch, xlog, msg, snap>>

Initialize(w) == InitializeStep(w) /\ UNCHANGED sync

(* lines 110-116 and 193-203: a blocking send of rank s meets the matching *)
(* blocking receive of rank r (synchronous transport); both calls return   *)
Transfer(s, r) ==
  /\ Matches(s, r)
  /\ mem' = [mem EXCEPT ![r][Op(r, pc[r]).buf] = Deliver(s, r)]
  /\ pc' = [pc EXCEPT ![s] = Succ(pc[s]), ![r] = Succ(pc[r])]
  /\ msg' = [from |-> s, to |-> r, tag |-> Op(s, pc[s]).tag,
             sbuf |-> Op(s, pc[s]).buf, rbuf |-> Op(r, pc[r]).buf,
             sbase |-> At(s, Op(s, pc[s]).buf, Op(s, pc[s]).row, Op(s, pc[s]).col),
             rbase |-> At(r, Op(r, pc[r]).buf, Op(r, pc[r]).row, Op(r, pc[r]).col),
             ints |-> MsgInts(Op(s, pc[s]).count), count |-> Op(s, pc[s]).count,
             sphase |-> Phase(s), rphase |-> Phase(r)]
  /\ fresh' = [fresh EXCEPT ![r].ex[Op(r, pc[r]).buf] =
                 @ \cup StoredCells(r, pc[r], MsgInts(Op(s, pc[s]).count))]
  /\ xlog' = IF xlog.stage = "half"
             THEN [xlog EXCEPT !.stage = "full",
                               !.post = [q \in Ranks |-> mem'[q][xlog.buf]]]
             ELSE [stage |-> "half", buf |-> Op(s, pc[s]).buf,
                   pre |-> [q \in Ranks |-> mem[q][Op(s, pc[s]).buf]],
                   post |-> <<>>]
  /\ hist' = [q \in Ranks |->
                IF q \in {s, r} /\ EndsExchange(pc[q])
                THEN Append(hist[q], Op(q, pc[q]).buf) ELSE hist[q]]
  /\ nexch' = [q \in Ranks |->
                IF q \in {s, r} /\ EndsExchange(pc[q]) THEN nexch[q] + 1 ELSE nexch[q]]
  /\ UNCHANGED <<sync, mem0, iw, chan, red, nx, ny, nsteps, k, dom, rowp, iters, snap>>

(* lines 118-125: first-order bootstrap of ucur; then k = 0 of line 132 *)
Bootstrap(w) ==
  /\ pc[w] = "boot"
  /\ mem' = [mem EXCEPT ![w] = BootstrapUpdate(w, mem[w])]
  /\ k' = [k EXCEPT ![w] = 0]
  /\ hist' = [hist EXCEPT ![w] = Append(@, "boot")]
  /\ pc' = [pc EXCEPT ![w] = Succ("boot")]
  /\ UNCHANGED <<sync, mem0, iw, fresh, chan, red, nx, ny, nsteps, dom, rowp, iters, nexch, xlog, msg, snap>>

(* line 132: the loop test holds, the body is entered *)
LoopEnter(w) ==
  /\ pc[w] = "loop"
  /\ LoopCond(k[w])
  /\ hist' = [hist EXCEPT ![w] = <<>>]
  /\ fresh' = [fresh EXCEPT ![w] = NoneFresh]
  /\ pc' = [pc EXCEPT ![w] = "bc"]
  /\ UNCHANGED <<sync, mem0, iw, chan, red, nx, ny, nsteps, k, dom, rowp, mem, iters, nexch, xlog, msg, snap>>

(* line 132: the loop test fails *)
LoopExit(w) ==
  /\ pc[w] = "loop"
  /\ ~LoopCond(k[w])
  /\ pc' = [pc EXCEPT ![w] = "fin"]
  /\ UNCHANGED <<sync, mem0, iw, fresh, chan, red, nx, ny, nsteps, k, dom, rowp, mem, hist, iters, nexch, xlog, msg, snap>>

(* lines 133-190: Dirichlet boundary conditions on uold and ucur *)
Boundary(w) ==
  /\ pc[w] = "bc"
  /\ snap' = [snap EXCEPT ![w] = mem[w]]
  /\ mem' = [mem EXCEPT ![w] = ApplyBC(w, mem[w])]
  /\ fresh' = [fresh EXCEPT ![w].bc =
                 [b \in Bufs |-> IF b \in {"uold", "ucur"}
                                 THEN @[b] \cup { At(w, b, c[1], c[2]) : c \in BCCells(w) }
                                 ELSE @[b]]]
  /\ hist' = [hist EXCEPT ![w] = Append(@, "bc")]
  /\ pc' = [pc EXCEPT ![w] = Succ("bc")]
  /\ UNCHANGED <<sync, mem0, iw, chan, red, nx, ny, nsteps, k, dom, rowp, iters, nexch, xlog, msg>>

(* lines 205-212: the next time level *)
Compute(w) ==
  /\ pc[w] = "stencil"
  /\ mem' = [mem EXCEPT ![w] = ComputeNext(w, mem[w])]
  /\ hist' = [hist EXCEPT ![w] = Append(@, "stencil")]
  /\ pc' = [pc EXCEPT ![w] = Succ("stencil")]
  /\ UNCHANGED <<sync, mem0, iw, fresh, chan, red, nx, ny, nsteps, k, dom, rowp, iters, nexch, xlog, msg, snap>>

(* lines 214-221: copy the time levels down; k++ *)
RotateStep(w) ==
  /\ pc[w] = "rotate"
  /\ mem' = [mem EXCEPT ![w] = UpdateArrays(w, mem[w])]
  /\ k' = [k EXCEPT ![w] = @ + 1]
  /\ iters' = [iters EXCEPT ![w] = @ + 1]
  /\ hist' = [hist EXCEPT ![w] = Append(@, "rotate")]
  /\ pc' = [pc EXCEPT ![w] = Succ("rotate")]
  /\ UNCHANGED <<mem0, iw, fresh, chan, red, nx, ny, nsteps, dom, rowp, nexch, xlog, msg, snap>>

Rotate(w) == RotateStep(w) /\ UNCHANGED sync

(* lines 222-223: completion message and MPI_Finalize *)
Finish(w) ==
  /\ pc[w] = "fin"
  /\ pc' = [pc EXCEPT ![w] = Succ("fin")]
  /\ UNCHANGED <<sync, mem0, iw, fresh, chan, red, nx, ny, nsteps, k, dom, rowp, mem, hist, iters, nexch, xlog, msg, snap>>

Next ==
  \/ \E w \in Ranks : Decompose(w)
  \/ \E w \in Ranks : Allocate(w)
  \/ \E w \in Ranks : Initialize(w)
  \/ \E s \in Ranks, r \in Ranks : Transfer(s, r)
  \/ \E w \in Ranks : Bootstrap(w)
  \/ \E w \in Ranks : LoopEnter(w)
  \/ \E w \in Ranks : LoopExit(w)
  \/ \E w \in Ranks : Boundary(w)
  \/ \E w \in Ranks : Compute(w)
  \/ \E w \in Ranks : Rotate(w)
  \/ \E w \in Ranks : Finish(w)

Spec == Init /\ [][Next]_vars


AllDone == \A w \in Ranks : pc[w] = "done"

(* the steps of rank w that involve no other rank *)
Local(w) ==
  \/ Decompose(w) \/ Allocate(w) \/ Initialize(w) \/ Bootstrap(w)
  \/ LoopEnter(w) \/ LoopExit(w) \/ Boundary(w) \/ Compute(w) \/ Rotate(w) \/ Finish(w)

(* every rank keeps running, and a matched send/receive pair completes *)
FairSpec ==
  /\ Spec
  /\ \A w \in Ranks : WF_vars(Local(w))
  /\ WF_vars(\E s \in Ranks, r \in Ranks : Transfer(s, r))

(* ======================== properties ======================== *)

(* rank w waits in an MPI call that no call of another rank matches *)
Blocked(w) ==
  /\ pc[w] \in CommPcs
  /\ \A q \in Ranks : ~Matches(w, q) /\ ~Matches(q, w)

(* C1: deadlock-freedom under synchronous blocking send/receive: in no     *)
(* reachable state are both ranks blocked in a send or receive, and in no  *)
(* reachable state is a rank blocked in a call while the other rank has    *)
(* finished, for every ny and number of steps.                             *)
C1_DeadlockFree ==
  /\ ~(\A w \in Ranks : Blocked(w))
  /\ ~(\E w \in Ranks, q \in Ranks : Blocked(w) /\ pc[q] = "done")

(* both ranks finished after the bootstrap exchange and all per-step exchanges *)
C1_Witness ==
  /\ AllDone
  /\ ny >= 3
  /\ \A w \in Ranks : nexch[w] >= 5

(* C2: exchange correctness: after each halo exchange of a buffer, for     *)
(* every row j in 1..ny, rank 0's ghost cell [nxLocal+1][j] equals the     *)
(* pre-exchange value of rank 1's cell [1][j] and rank 1's ghost cell      *)
(* [0][j] equals the pre-exchange value of rank 0's cell [nxLocal][j].     *)
C2_ExchangeCorrect ==
  xlog.stage = "full" =>
    \A j \in 1 .. ny :
      /\ xlog.post[0][At(0, xlog.buf, dom[0].nxnom + 1, j)]
           = xlog.pre[1][At(1, xlog.buf, 1, j)]
      /\ xlog.post[1][At(1, xlog.buf, 0, j)]
           = xlog.pre[0][At(0, xlog.buf, dom[0].nxnom, j)]

(* single-process reference on the full nx x ny grid with a zero border:   *)
(* same initial condition, same bootstrap and same literal recurrence      *)
RefGrid == (0 .. nx + 1) \X (0 .. ny + 1)
RefInterior == (1 .. nx) \X (1 .. ny)
RefInit == [c \in RefGrid |-> IF c \in RefInterior THEN Pulse(c[1], c[2]) ELSE 0]
RefLaplacian(u, i, j) ==
    u[<<i + 1, j>>] - 2 * u[<<i, j>>] + u[<<i - 1, j>>]
  + u[<<i, j + 1>>] - 2 * u[<<i, j>>] + u[<<i, j - 1>>]
RefBoot(u0) ==
  [c \in RefGrid |->
     IF c \in RefInterior
     THEN ToInt(2 * DtDxSqDen * u0[c] + DtDxSqNum * RefLaplacian(u0, c[1], c[2]),
                2 * DtDxSqDen)
     ELSE 0]
RefNext(u0, u1) ==
  [c \in RefGrid |->
     IF c \in RefInterior
     THEN ToInt(DtDxSqDen * (2 * u1[c] + u0[c]) + DtDxSqNum * RefLaplacian(u1, c[1], c[2]),
                DtDxSqDen)
     ELSE 0]
RECURSIVE RefLevels(_)
(* <<previous, current>> of the reference after n time steps *)
RefLevels(n) ==
  IF n = 0 THEN <<RefInit, RefBoot(RefInit)>>
  ELSE LET p == RefLevels(n - 1) IN <<p[2], RefNext(p[1], p[2])>>

(* C3: serial equivalence: for even nx, after the bootstrap and after any  *)
(* number of completed steps, the interior columns of the current field    *)
(* of rank 0 and rank 1, stitched by global column index, equal the        *)
(* current field of the single-process reference after as many steps.      *)
C3_SerialEquivalent ==
  (/\ nx % 2 = 0
   /\ \A w \in Ranks : pc[w] \in {"loop", "fin", "done"}
   /\ iters[0] = iters[1])
  => \A w \in Ranks : \A li \in 1 .. dom[w].nxnom : \A j \in 1 .. ny :
       Get(mem[w], w, "ucur", li, j)
         = RefLevels(iters[w])[2][<<dom[w].gixs + li - 1, j>>]

(* C4: decomposition coverage: for even nx the owned global column ranges  *)
(* [gixs, gixe] of rank 0 and rank 1 are non-empty, do not overlap, and    *)
(* their union is 1..nx: rank 0 owns 1..nx/2, rank 1 owns nx/2+1..nx.      *)
C4_DecompositionCoverage ==
  (nx % 2 = 0 /\ \A w \in Ranks : pc[w] # "decomp") =>
    LET own(w) == dom[w].gixs .. dom[w].gixe
    IN /\ own(0) # {} /\ own(1) # {}
       /\ own(0) \cap own(1) = {}
       /\ own(0) \cup own(1) = 1 .. nx
       /\ dom[0].gixs = 1 /\ dom[0].gixe = nx \div 2
       /\ dom[1].gixs = (nx \div 2) + 1 /\ dom[1].gixe = nx

(* both ranks have decomposed a grid of four columns *)
C4_Witness ==
  /\ nx = 4
  /\ \A w \in Ranks : pc[w] # "decomp" /\ dom[w].nxnom = 2

StepOrder == <<"bc", "uold", "ucur", "stencil", "rotate">>

IsPrefix(a, b) == Len(a) <= Len(b) /\ \A n \in 1 .. Len(a) : a[n] = b[n]

LoopBodyPcs == {"bc", "x1", "x2", "x3", "x4", "stencil", "rotate"}

(* C5: per-step ordering: in every iteration of the time loop the events   *)
(* of a rank occur in the order boundary application, exchange of          *)
(* previous, exchange of current, stencil, rotation; the stencil of a step *)
(* starts only after that step's boundary application and both exchanges,  *)
(* and a completed iteration consists of exactly these five events.        *)
C5_StepOrdering ==
  \A w \in Ranks :
    /\ pc[w] \in LoopBodyPcs => IsPrefix(hist[w], StepOrder)
    /\ pc[w] = "stencil" => hist[w] = <<"bc", "uold", "ucur">>
    /\ \A n \in 1 .. Len(hist[w]) :
         (pc[w] \in LoopBodyPcs /\ hist[w][n] = "stencil") =>
            SubSeq(hist[w], 1, n - 1) = <<"bc", "uold", "ucur">>
    /\ (pc[w] \in {"loop", "fin", "done"} /\ iters[w] > 0) => hist[w] = StepOrder

(* a rank has evaluated the stencil of its second iteration *)
C5_Witness ==
  \E w \in Ranks : iters[w] = 1 /\ pc[w] = "rotate" /\ Len(hist[w]) = 4

(* the physical-edge column and the inter-rank interface column of rank w *)
EdgeColumn(w) == IF w = 0 THEN 0 ELSE dom[w].nxnom + 1
InterfaceColumn(w) == IF w = 0 THEN dom[w].nxnom + 1 ELSE 0

(* C6: boundary application: after the boundary code has run on a rank,    *)
(* in both previous and current every cell of its physical-edge column     *)
(* (column 0 on rank 0, column nxLocal+1 on rank 1; rows 0..ny+1) and      *)
(* every cell of rows 0 and ny+1 (columns 0..nxLocal+1) is zero, the       *)
(* interface column at rows 1..ny is unchanged, and no interior cell is    *)
(* modified.                                                               *)
C6_BoundaryApplied ==
  \A w \in Ranks :
    pc[w] = "x1" =>
      \A b \in {"uold", "ucur"} :
        /\ \A j \in 0 .. ny + 1 : Get(mem[w], w, b, EdgeColumn(w), j) = 0
        /\ \A i \in 0 .. dom[w].nxnom + 1 :
             Get(mem[w], w, b, i, 0) = 0 /\ Get(mem[w], w, b, i, ny + 1) = 0
        /\ \A j \in 1 .. ny :
             Get(mem[w], w, b, InterfaceColumn(w), j)
               = Get(snap[w], w, b, InterfaceColumn(w), j)
        /\ \A c \in Interior(w) :
             Get(mem[w], w, b, c[1], c[2]) = Get(snap[w], w, b, c[1], c[2])

(* the boundary code has just changed a rank's arrays and left non-zero    *)
(* values in its interface column                                          *)
C6_Witness ==
  \E w \in Ranks :
    /\ pc[w] = "x1" /\ ny >= 2
    /\ snap[w] # mem[w]
    /\ \A j \in 1 .. ny : Get(mem[w], w, "ucur", InterfaceColumn(w), j) # 0

(* C7: exchange extent: each message carries exactly the ny cells of rows  *)
(* 1..ny of the sender's interior interface column and is stored into      *)
(* exactly the ny cells of rows 1..ny of the receiver's ghost column; rows *)
(* 0 and ny+1 are neither transmitted nor written.                         *)
C7_ExchangeExtent ==
  msg.from # -1 =>
    LET s == msg.from
        r == msg.to
        scol == IF s = 0 THEN dom[s].nxnom ELSE 1
        sent == { msg.sbase + t : t \in 0 .. msg.ints - 1 }
        stored == { msg.rbase + t : t \in 0 .. msg.ints - 1 }
    IN /\ Cardinality(sent) = ny
       /\ sent = { At(s, msg.sbuf, scol, j) : j \in 1 .. ny }
       /\ stored = { At(r, msg.rbuf, InterfaceColumn(r), j) : j \in 1 .. ny }

(* C8: boundary idempotence: for either rank and any contents of its       *)
(* arrays, applying the boundary code twice in succession gives, cell for  *)
(* cell, the arrays that applying it once gives.                           *)
C8_BoundaryIdempotent ==
  \A w \in Ranks :
    pc[w] \notin {"decomp", "alloc"} =>
      ApplyBC(w, ApplyBC(w, mem[w])) = ApplyBC(w, mem[w])

(* the boundary code has just run on a rank and changed its arrays, and    *)
(* running it again changes nothing                                        *)
C8_Witness ==
  \E w \in Ranks :
    /\ pc[w] = "x1"
    /\ mem[w] # snap[w]
    /\ mem[w] = ApplyBC(w, snap[w])
    /\ ApplyBC(w, mem[w]) = mem[w]

(* C9: step count: when a rank leaves the time loop it has performed       *)
(* exactly nsteps boundary/exchange/stencil/rotate iterations, and both    *)
(* ranks perform the same number of iterations.                            *)
C9_StepCount ==
  /\ \A w \in Ranks : pc[w] \in {"fin", "done"} => iters[w] = nsteps
  /\ AllDone => iters[0] = iters[1]

(* C10: termination: with exactly two ranks, under weak fairness of each   *)
(* rank's steps and of message delivery, every run eventually reaches the  *)
(* state in which both ranks have left the time loop and finalized.        *)
C10_Termination == <>AllDone

(* both ranks have finalized after running the time loop *)
C10_Witness ==
  /\ AllDone
  /\ \A w \in Ranks : iters[w] >= 1 /\ hist[w] = StepOrder

(* the cells of the interface ghost column of rank w, rows 0..ny+1 *)
GhostColumnCells(w, b) == { At(w, b, InterfaceColumn(w), j) : j \in 0 .. ny + 1 }

(* C11: ownership: a rank's arrays change only by its own statements, and  *)
(* a send or receive of a halo exchange changes on that rank only cells of *)
(* its interface ghost column (column nxLocal+1 on rank 0, column 0 on     *)
(* rank 1) of the buffer being exchanged; interior cells, the other ghost  *)
(* cells and the other two buffers are unchanged.                          *)
C11_ExchangeFrame ==
  [][\A w \in Ranks :
       /\ (pc[w] \in CommPcs /\ pc'[w] # pc[w]) =>
            \A b \in Bufs : \A idx \in DOMAIN mem[w][b] :
              mem'[w][b][idx] # mem[w][b][idx] =>
                (b = Op(w, pc[w]).buf /\ idx \in GhostColumnCells(w, b))
       /\ pc'[w] = pc[w] => mem'[w] = mem[w]]_vars

(* C12: coordinate mapping: for every global index i in 1..nx, j in 1..ny  *)
(* the coordinates x = XNum(i)/(nx+1), y = YNum(j)/(ny+1) used by the      *)
(* initialisation satisfy -1 < x < 1 and -1 < y < 1, consecutive indices   *)
(* are dx = 2/(nx+1) resp. dy = 2/(ny+1) apart, and an index nearer to the *)
(* grid centre maps nearer to the origin.                                  *)
C12_CoordinateMapping ==
  (\E w \in Ranks : pc[w] \notin {"decomp", "alloc", "initu"}) =>
    /\ \A i \in 1 .. nx : -(nx + 1) < XNum(i) /\ XNum(i) < nx + 1
    /\ \A j \in 1 .. ny : -(ny + 1) < YNum(j) /\ YNum(j) < ny + 1
    /\ \A i \in 1 .. nx - 1 : Abs(XNum(i + 1) - XNum(i)) = 2
    /\ \A j \in 1 .. ny - 1 : Abs(YNum(j + 1) - YNum(j)) = 2
    /\ \A i \in 1 .. nx : \A h \in 1 .. nx :
         Abs(2 * i - (nx + 1)) <= Abs(2 * h - (nx + 1)) => Abs(XNum(i)) <= Abs(XNum(h))
    /\ \A j \in 1 .. ny : \A h \in 1 .. ny :
         Abs(2 * j - (ny + 1)) <= Abs(2 * h - (ny + 1)) => Abs(YNum(j)) <= Abs(YNum(h))

(* ======================================================================= *)
(* The collective-reduce test program (src/beta/wavetoy_testreduce.c)      *)
(* ======================================================================= *)
MaxRedProcs == 3
MaxRedPoints == 2

solverVars == <<nx, ny, nsteps, pc, k, dom, rowp, mem, hist, iters, nexch, xlog, msg, snap,
                mem0, iw, fresh, chan, sync>>

(* the value read from an int that has not been assigned yet *)
Indeterminate == {0, 1}

RedRankIds == 0 .. (MaxRedProcs - 1)
RedRanks == 0 .. (red.nprocs - 1)

(* nxprocs = (nprocs*nx)/(nx+ny); nyprocs = (nprocs*ny)/(nx+ny) *)
RedNxProcs(np, gx, gy) == (np * gx) \div (gx + gy)
RedNyProcs(np, gx, gy) == (np * gy) \div (gx + gy)

(* the solver is not part of a run of the test program *)
SolverIdle ==
  /\ nx = 0 /\ ny = 0 /\ nsteps = 0
  /\ pc = [w \in Ranks |-> "off"]
  /\ k = [w \in Ranks |-> 0]
  /\ dom = [w \in Ranks |-> NoDomain]
  /\ rowp = [w \in Ranks |-> [b \in Bufs |-> <<>>]]
  /\ mem = [w \in Ranks |-> [b \in Bufs |-> <<>>]]
  /\ hist = [w \in Ranks |-> <<>>]
  /\ iters = [w \in Ranks |-> 0]
  /\ nexch = [w \in Ranks |-> 0]
  /\ xlog = NoExchange
  /\ msg = NoMessage
  /\ snap = [w \in Ranks |-> [b \in Bufs |-> <<>>]]
  /\ mem0 = [w \in Ranks |-> [b \in Bufs |-> <<>>]]
  /\ iw = [w \in Ranks |-> NoWrites]
  /\ fresh = [w \in Ranks |-> NoneFresh]
  /\ chan = <<>>
  /\ sync = NoSync

(* lines 20-27: the arguments nx, ny and the number of processes *)
InitReduce ==
  /\ SolverIdle
  /\ \E np \in 1 .. MaxRedProcs, gx \in 1 .. MaxRedPoints, gy \in 1 .. MaxRedPoints :
       red = [job |-> "running", exit |-> 0, nprocs |-> np, nx |-> gx, ny |-> gy,
              pc |-> [r \in 0 .. np - 1 |-> "grid"],
              loc |-> [r \in 0 .. np - 1 |->
                         [nxprocs |-> 0, nyprocs |-> 0, nxnom |-> 0, nynom |-> 0, sum |-> 0]],
              total |-> 0]

(* lines 29-31: number of processors in each direction *)
RedGrid(r) ==
  /\ red.job = "running" /\ r \in RedRanks /\ red.pc[r] = "grid"
  /\ red' = [red EXCEPT !.pc[r] = "check",
                        !.loc[r].nxprocs = RedNxProcs(red.nprocs, red.nx, red.ny),
                        !.loc[r].nyprocs = RedNyProcs(red.nprocs, red.nx, red.ny)]
  /\ UNCHANGED solverVars

(* the test of line 34; nxnom and nynom are read before line 40 assigns them *)
RedAbortTest(r, vnxnom, vnynom) ==
  red.loc[r].nxprocs = 0 \/ red.loc[r].nyprocs = 0 \/ vnxnom = 0 \/ vnynom = 0

(* lines 34-37, test true: MPI_Abort(MPI_COMM_WORLD, 1) ends every process *)
RedAbort(r) ==
  /\ red.job = "running" /\ r \in RedRanks /\ red.pc[r] = "check"
  /\ \E g \in Indeterminate, h \in Indeterminate : RedAbortTest(r, g, h)
  /\ red' = [red EXCEPT !.job = "aborted", !.exit = 1]
  /\ UNCHANGED solverVars

(* lines 34-41, test false: nominal number of points in each patch *)
RedNominal(r) ==
  /\ red.job = "running" /\ r \in RedRanks /\ red.pc[r] = "check"
  /\ \E g \in Indeterminate, h \in Indeterminate : ~RedAbortTest(r, g, h)
  /\ red' = [red EXCEPT !.pc[r] = "sum",
                        !.loc[r].nxnom = red.nx \div red.loc[r].nxprocs,
                        !.loc[r].nynom = red.ny \div red.loc[r].nyprocs]
  /\ UNCHANGED solverVars

(* lines 84-109: fill the patch with the rank and sum its interior *)
RedSum(r) ==
  /\ red.job = "running" /\ r \in RedRanks /\ red.pc[r] = "sum"
  /\ red' = [red EXCEPT !.pc[r] = "reduce",
                        !.loc[r].sum = r * red.loc[r].nxnom * red.loc[r].nynom]
  /\ UNCHANGED solverVars

RECURSIVE RedTotal(_)
RedTotal(n) == IF n < 0 THEN 0 ELSE red.loc[n].sum + RedTotal(n - 1)

(* line 113: MPI_Reduce(MPI_SUM) to rank 0, entered by every rank *)
RedReduce ==
  /\ red.job = "running"
  /\ \A r \in RedRanks : red.pc[r] = "reduce"
  /\ red' = [red EXCEPT !.pc = [r \in RedRanks |-> "barrier"],
                        !.total = RedTotal(red.nprocs - 1)]
  /\ UNCHANGED solverVars

(* line 118: MPI_Barrier *)
RedBarrier ==
  /\ red.job = "running"
  /\ \A r \in RedRanks : red.pc[r] = "barrier"
  /\ red' = [red EXCEPT !.pc = [r \in RedRanks |-> "fin"]]
  /\ UNCHANGED solverVars

(* line 121: MPI_Finalize *)
RedFinalize(r) ==
  /\ red.job = "running" /\ r \in RedRanks /\ red.pc[r] = "fin"
  /\ red' = [red EXCEPT !.pc[r] = "done",
                        !.job = IF \A q \in RedRanks \ {r} : red.pc[q] = "done"
                                THEN "finished" ELSE "running"]
  /\ UNCHANGED solverVars

NextReduce ==
  \/ \E r \in RedRankIds : RedGrid(r)
  \/ \E r \in RedRankIds : RedAbort(r)
  \/ \E r \in RedRankIds : RedNominal(r)
  \/ \E r \in RedRankIds : RedSum(r)
  \/ RedReduce
  \/ RedBarrier
  \/ \E r \in RedRankIds : RedFinalize(r)

SpecReduce == InitReduce /\ [][NextReduce]_vars

(* the computed processor grid has a zero dimension *)
RedGridZero ==
  RedNxProcs(red.nprocs, red.nx, red.ny) = 0 \/ RedNyProcs(red.nprocs, red.nx, red.ny) = 0

(* C13: the collective-reduce program aborts the job with non-zero exit    *)
(* status exactly when the computed processor grid has a zero dimension:   *)
(* with nxprocs # 0 and nyprocs # 0 it never aborts, and with a zero       *)
(* dimension no rank gets past the test.                                   *)
C13_AbortExactly ==
  /\ red.job = "aborted" => (RedGridZero /\ red.exit # 0)
  /\ (red.job # "aborted" /\ \E r \in RedRanks : red.pc[r] \notin {"grid", "check"})
       => ~RedGridZero

(* the cells that the second differences at [i][j] read *)
StencilReads(c) ==
  {<<c[1] + 1, c[2]>>, <<c[1], c[2]>>, <<c[1] - 1, c[2]>>, <<c[1], c[2] + 1>>, <<c[1], c[2] - 1>>}

(* the ghost cells read when the second differences are taken over the interior *)
GhostReads(w) == (UNION { StencilReads(c) : c \in Interior(w) }) \ Interior(w)

(* ghost cell c of buffer b was stored in the current phase of rank w, by  *)
(* the exchange if it lies in the interface column, else by the boundary   *)
(* code                                                                    *)
GhostValid(w, b, c) ==
  IF c[1] = InterfaceColumn(w)
  THEN At(w, b, c[1], c[2]) \in fresh[w].ex[b]
  ELSE At(w, b, c[1], c[2]) \in fresh[w].bc[b]

(* C14: ghost validity at evaluation: every ghost cell that the bootstrap  *)
(* update reads from previous, and every ghost cell that a stencil update  *)
(* reads from current, has been written earlier in the same phase          *)
(* (bootstrap, or the same time step) by the boundary code if it lies on a *)
(* physical edge or by the halo exchange if it lies on the interface.      *)
C14_GhostValid ==
  \A w \in Ranks :
    /\ pc[w] = "boot" => \A c \in GhostReads(w) : GhostValid(w, "uold", c)
    /\ pc[w] = "stencil" => \A c \in GhostReads(w) : GhostValid(w, "ucur", c)

BootOrder == <<"init", "uold", "boot">>

(* the number of exchanges recorded among the events e *)
ExchangesIn(e) == Cardinality({ n \in 1 .. Len(e) : e[n] \in {"uold", "ucur"} })

(* C15: bootstrap sequence and exchange count: a rank performs, in order,  *)
(* the initialisation of previous, exactly one exchange of previous, one   *)
(* bootstrap update, and then the time loop; in each step exactly two      *)
(* exchanges occur, previous first and current second, both before the     *)
(* stencil; so after S completed steps a rank has performed exactly        *)
(* 1 + 2*S exchanges.                                                      *)
C15_ExchangeCount ==
  \A w \in Ranks :
    /\ pc[w] \in {"b1", "b2", "boot"} =>
         (IsPrefix(hist[w], BootOrder) /\ nexch[w] = ExchangesIn(hist[w]))
    /\ (pc[w] = "loop" /\ iters[w] = 0) => (hist[w] = BootOrder /\ nexch[w] = 1)
    /\ pc[w] \in LoopBodyPcs =>
         /\ nexch[w] = 1 + 2 * iters[w] + ExchangesIn(hist[w])
         /\ (pc[w] \in {"stencil", "rotate"} =>
               /\ Len(hist[w]) >= 3
               /\ hist[w][2] = "uold"
               /\ hist[w][3] = "ucur"
               /\ ExchangesIn(hist[w]) = 2)
    /\ pc[w] \in {"loop", "fin", "done"} => nexch[w] = 1 + 2 * iters[w]

(* both ranks have finished a run of at least two steps *)
C15_Witness ==
  /\ AllDone
  /\ \A w \in Ranks : iters[w] >= 2 /\ nexch[w] = 1 + 2 * iters[w]

(* C16: buffer rotation: after the rotation at the end of a step, on each  *)
(* rank the previous buffer equals the pre-rotation current buffer and the *)
(* current buffer equals the next buffer just computed, for every cell of  *)
(* the interior [1..nxLocal] x [1..ny]; the rotation changes no cell of    *)
(* next.                                                                   *)
C16_BufferRotation ==
  [][\A w \in Ranks :
       (pc[w] = "rotate" /\ pc'[w] = "loop") =>
         /\ \A c \in Interior(w) :
              /\ Get(mem'[w], w, "uold", c[1], c[2]) = Get(mem[w], w, "ucur", c[1], c[2])
              /\ Get(mem'[w], w, "ucur", c[1], c[2]) = Get(mem[w], w, "unew", c[1], c[2])
         /\ mem'[w]["unew"] = mem[w]["unew"]]_vars

(* a rank has rotated at least once and its previous and current levels    *)
(* differ on an interior cell                                              *)
C16_Witness ==
  \E w \in Ranks :
    /\ pc[w] = "loop"
    /\ iters[w] >= 1
    /\ \E c \in Interior(w) :
         /\ Get(mem[w], w, "uold", c[1], c[2]) # Get(mem[w], w, "ucur", c[1], c[2])
         /\ Get(mem[w], w, "ucur", c[1], c[2]) = Get(mem[w], w, "unew", c[1], c[2])

(* C17: initializer ownership: after initialisation, on each rank every    *)
(* local interior cell [li][j], li in 1..nxLocal, j in 1..ny, of previous  *)
(* has been set exactly once, to the pulse value of global cell            *)
(* (gixs + li - 1, j); the initializer writes no ghost cell and no cell of *)
(* current or next, and no global column is written by both ranks.         *)
C17_InitializerOwnership ==
  /\ \A w \in Ranks :
       pc[w] = "b1" =>
         /\ \A c \in Interior(w) :
              LET idx == At(w, "uold", c[1], c[2])
                  g == <<dom[w].gixs + c[1] - 1, c[2]>>
              IN /\ iw[w].count[idx] = 1
                 /\ iw[w].from[idx] = {g}
                 /\ mem[w]["uold"][idx] = Pulse(g[1], g[2])
         /\ \A idx \in DOMAIN mem[w]["uold"] :
              (\A c \in Interior(w) : At(w, "uold", c[1], c[2]) # idx) =>
                 /\ iw[w].count[idx] = 0
                 /\ mem[w]["uold"][idx] = mem0[w]["uold"][idx]
         /\ mem[w]["ucur"] = mem0[w]["ucur"]
         /\ mem[w]["unew"] = mem0[w]["unew"]
  /\ (\A w \in Ranks : pc[w] \notin {"decomp", "alloc", "initu"}) =>
       iw[0].cols \cap iw[1].cols = {}

(* both ranks have initialised, over memory that held non-zero values, and *)
(* between them they wrote every global column                             *)
C17_Witness ==
  /\ \A w \in Ranks : pc[w] = "b1" /\ \E idx \in DOMAIN mem0[w]["uold"] :
                                        mem0[w]["uold"][idx] # mem[w]["uold"][idx]
  /\ iw[0].cols \cup iw[1].cols = 1 .. nx
  /\ nx >= 3

(* C18: message matching and lock-step: every completed point-to-point     *)
(* transfer pairs a send and a receive issued in the same phase (both in   *)
(* the bootstrap exchange, or both in the same time-step index k) and for  *)
(* the same buffer; no receive consumes a message sent from the other      *)
(* buffer or from a different step, although the messages of previous and  *)
(* current in one direction carry the same tag.                            *)
C18_MessageMatching ==
  msg.from # -1 =>
    /\ msg.to = 1 - msg.from
    /\ msg.sbuf = msg.rbuf
    /\ msg.sphase = msg.rphase
    /\ msg.sphase >= -1

(* a transfer of current has completed in a step after the first, in the   *)
(* direction whose transfers of previous and current both carry tag 0      *)
C18_Witness ==
  /\ msg.from = 0
  /\ msg.tag = 0
  /\ msg.sbuf = "ucur"
  /\ msg.rbuf = "ucur"
  /\ msg.sphase >= 1

(* ============ the solver over a buffering transport ============ *)
(* MPI_Send in standard mode may copy the message out of the user buffer   *)
(* and return before the matching receive is posted; chan holds the        *)
(* messages sent and not yet received, oldest first.                       *)

(* positions in chan of the messages that the receive posted by rank w     *)
(* at its current statement can take                                       *)
Arrived(w) ==
  { n \in 1 .. Len(chan) :
      /\ chan[n].from = Op(w, pc[w]).peer
      /\ chan[n].to = w
      /\ chan[n].tag = Op(w, pc[w]).tag
      /\ chan[n].count <= Op(w, pc[w]).count }

(* messages from one source are matched in the order they were sent *)
FirstArrived(w) == CHOOSE n \in Arrived(w) : \A q \in Arrived(w) : n <= q

RemoveAt(q, n) == SubSeq(q, 1, n - 1) \o SubSeq(q, n + 1, Len(q))

(* lines 110-116 and 193-203: MPI_Send returns once the message is copied out *)
SendBuf(w) ==
  /\ pc[w] \in CommPcs
  /\ Op(w, pc[w]).kind = "send"
  /\ LET o == Op(w, pc[w])
         base == At(w, o.buf, o.row, o.col)
     IN chan' = Append(chan,
                  [from |-> w, to |-> o.peer, tag |-> o.tag, buf |-> o.buf,
                   phase |-> Phase(w), base |-> base, count |-> o.count,
                   data |-> [t \in 0 .. MsgInts(o.count) - 1 |-> mem[w][o.buf][base + t]]])
  /\ pc' = [pc EXCEPT ![w] = Succ(pc[w])]
  /\ hist' = [hist EXCEPT ![w] = IF EndsExchange(pc[w])
                                 THEN Append(@, Op(w, pc[w]).buf) ELSE @]
  /\ nexch' = [nexch EXCEPT ![w] = IF EndsExchange(pc[w]) THEN @ + 1 ELSE @]
  /\ UNCHANGED <<sync, mem0, iw, fresh, red, nx, ny, nsteps, k, dom, rowp, mem, iters, xlog, msg, snap>>

(* lines 110-116 and 193-203: MPI_Recv returns once a matching message is stored *)
RecvBuf(w) ==
  /\ pc[w] \in CommPcs
  /\ Op(w, pc[w]).kind = "recv"
  /\ Arrived(w) # {}
  /\ LET o == Op(w, pc[w])
         m == chan[FirstArrived(w)]
         rbase == At(w, o.buf, o.row, o.col)
         n == MsgInts(m.count)
     IN /\ mem' = [mem EXCEPT ![w][o.buf] =
                     [idx \in DOMAIN mem[w][o.buf] |->
                        IF idx >= rbase /\ idx < rbase + n
                        THEN m.data[idx - rbase]
                        ELSE mem[w][o.buf][idx]]]
        /\ msg' = [from |-> m.from, to |-> w, tag |-> m.tag,
                   sbuf |-> m.buf, rbuf |-> o.buf, sbase |-> m.base, rbase |-> rbase,
                   ints |-> n, count |-> m.count,
                   sphase |-> m.phase, rphase |-> Phase(w)]
        /\ fresh' = [fresh EXCEPT ![w].ex[o.buf] = @ \cup StoredCells(w, pc[w], n)]
        /\ chan' = RemoveAt(chan, FirstArrived(w))
  /\ pc' = [pc EXCEPT ![w] = Succ(pc[w])]
  /\ hist' = [hist EXCEPT ![w] = IF EndsExchange(pc[w])
                                 THEN Append(@, Op(w, pc[w]).buf) ELSE @]
  /\ nexch' = [nexch EXCEPT ![w] = IF EndsExchange(pc[w]) THEN @ + 1 ELSE @]
  /\ UNCHANGED <<sync, mem0, iw, red, nx, ny, nsteps, k, dom, rowp, iters, xlog, snap>>

(* the initialisation; the second rank to initialise starts the record of  *)
(* the synchronous run                                                     *)
InitializeTracked(w) ==
  /\ InitializeStep(w)
  /\ sync' = IF \A q \in Ranks \ {w} : pc[q] \notin {"decomp", "alloc", "initu"}
             THEN [n |-> 0, prev |-> <<>>, cur |-> SyncBoot] ELSE sync

(* the rotation; the first rank to finish an iteration advances the record *)
(* of the synchronous run by one iteration                                 *)
RotateTracked(w) ==
  /\ RotateStep(w)
  /\ sync' = IF sync.n = iters[w]
             THEN [n |-> sync.n + 1, prev |-> sync.cur, cur |-> SyncStep(sync.cur)]
             ELSE sync

NextBuf ==
  \/ \E w \in Ranks : Decompose(w)
  \/ \E w \in Ranks : Allocate(w)
  \/ \E w \in Ranks : InitializeTracked(w)
  \/ \E w \in Ranks : SendBuf(w)
  \/ \E w \in Ranks : RecvBuf(w)
  \/ \E w \in Ranks : Bootstrap(w)
  \/ \E w \in Ranks : LoopEnter(w)
  \/ \E w \in Ranks : LoopExit(w)
  \/ \E w \in Ranks : Boundary(w)
  \/ \E w \in Ranks : Compute(w)
  \/ \E w \in Ranks : RotateTracked(w)
  \/ \E w \in Ranks : Finish(w)

SpecBuf == Init /\ [][NextBuf]_vars

(* a rank at the head of the loop, or past it, holds the values of the     *)
(* synchronous run after as many iterations                                *)
SameAsSynchronous ==
  \A w \in Ranks :
    pc[w] \in {"loop", "fin", "done"} =>
      /\ iters[w] \in {sync.n, sync.n - 1}
      /\ mem[w] = (IF iters[w] = sync.n THEN sync.cur[w] ELSE sync.prev[w])

(* rank w waits in a receive for which no message has arrived *)
RecvWaits(w) ==
  /\ pc[w] \in CommPcs
  /\ Op(w, pc[w]).kind = "recv"
  /\ Arrived(w) = {}

(* C19: bounded in-flight messages: with buffered sends (a send may return *)
(* before the matching receive is posted) at most one message in total is  *)
(* sent and not yet received in every reachable state, the run is still    *)
(* deadlock-free, and it delivers the same values as under synchronous     *)
(* sends.                                                                  *)
C19_BoundedInFlight ==
  /\ Len(chan) <= 1
  /\ ~(\E w \in Ranks : RecvWaits(w) /\ \A q \in Ranks \ {w} : RecvWaits(q) \/ pc[q] = "done")
  /\ AllDone => chan = <<>>
  /\ SameAsSynchronous

(* a message of previous, sent in a later step, is in flight while its     *)
(* receiver has not yet posted the receive                                 *)
C19_Witness ==
  /\ Len(chan) = 1
  /\ chan[1].buf = "uold"
  /\ chan[1].phase >= 1
  /\ pc[chan[1].to] \notin CommPcs
  /\ \E t \in DOMAIN chan[1].data : chan[1].data[t] # 0

(* the index pairs [i][j] inside the extent of a field of rank w *)
Extent(w) == (0 .. dom[w].nxnom + 1) \X (0 .. ny + 1)

(* the index pairs [i][j] that the initialisation, the boundary code, the  *)
(* bootstrap, the stencil and the rotation of rank w use                   *)
LocalAccesses(w) ==
  { <<ij[1] - dom[w].gixs + 1, ij[2]>> : ij \in { c \in (1 .. nx) \X (1 .. ny) : Owned(w, c[1]) } }
    \cup BCCells(w)
    \cup UNION { StencilReads(c) : c \in (1 .. dom[w].nxnom) \X (1 .. dom[w].nynom) }
    \cup UNION { StencilReads(c) : c \in Interior(w) }
    \cup Interior(w)

(* the index pairs [i][j] of the int cells that the MPI call at statement  *)
(* p of rank w reads or stores, counted from its buffer argument           *)
MessageAccesses(w, p) ==
  { <<Op(w, p).row, Op(w, p).col + t>> : t \in 0 .. MsgInts(Op(w, p).count) - 1 }

(* C20: in-bounds access: every index the solver uses lies inside the      *)
(* allocated extent: every field access [i][j] by initialisation, boundary *)
(* application, exchange, bootstrap, stencil and rotation satisfies        *)
(* 0 <= i <= nxLocal+1 and 0 <= j <= ny+1, and every index written while   *)
(* setting up the row-pointer tables is smaller than the number of rows    *)
(* allocated (gnx = nxLocal+2).                                            *)
C20_InBounds ==
  \A w \in Ranks :
    pc[w] \notin {"decomp", "alloc"} =>
      /\ LocalAccesses(w) \subseteq Extent(w)
      /\ \A p \in CommPcs : MessageAccesses(w, p) \subseteq Extent(w)
      /\ \A b \in Bufs : \A i \in DOMAIN rowp[w][b] : i < dom[w].gnx

(* the parts of the statement, one by one *)
C20_LocalInBounds ==
  \A w \in Ranks : pc[w] \notin {"decomp", "alloc"} => LocalAccesses(w) \subseteq Extent(w)

C20_MessagesInBounds ==
  \A w \in Ranks :
    pc[w] \notin {"decomp", "alloc"} =>
      \A p \in CommPcs : MessageAccesses(w, p) \subseteq Extent(w)

C20_RowTableInBounds ==
  \A w \in Ranks :
    pc[w] \notin {"decomp", "alloc"} =>
      \A b \in Bufs : \A i \in DOMAIN rowp[w][b] : i < dom[w].gnx

====
